---------------------------- MODULE Spec2Model ----------------------------
(***************************************************************************)
(* Table & data visualisation app (React/TypeScript).                      *)
(*                                                                         *)
(*   dataTypeDetection : detectDataType, getRecommendedCharts,             *)
(*                       getChartSuitability                               *)
(*   ChartDisplay      : prepareChartData, renderChart                     *)
(*   App               : the form state and its handlers                   *)
(*                                                                         *)
(* JavaScript strings are modelled as sequences of one-character strings   *)
(* so that trim() and Number() are computed character by character.        *)
(* JavaScript arrays are 0-based; the sequences here are 1-based, so       *)
(* columns[0] in the source is columns[1] here.                            *)
(***************************************************************************)
EXTENDS Integers, Sequences, FiniteSets, TLC

(***************************************************************************)
(* Bounds of the model.                                                    *)
(***************************************************************************)
\* most header inputs / row blocks the form is grown to
MaxCols == 3
MaxRows == 2
\* most cells (columns x rows) of a dataset handed directly to detectDataType
MaxCells == 6
\* number of handler invocations explored after construction or a reset
MaxSteps == 8
\* most cells of a dataset handed directly to ChartDisplay
MaxChartCells == 4

(***************************************************************************)
(* JavaScript values: string | number | undefined.                         *)
(***************************************************************************)
Str(s) == [type |-> "string", nan |-> FALSE, n |-> 0, s |-> s]
Num(k) == [type |-> "number", nan |-> FALSE, n |-> k, s |-> <<>>]
NaN == [type |-> "number", nan |-> TRUE, n |-> 0, s |-> <<>>]
Undefined == [type |-> "undefined", nan |-> FALSE, n |-> 0, s |-> <<>>]

Digits == <<"0", "1", "2", "3", "4", "5", "6", "7", "8", "9">>
IsDigit(c) == \E d \in 1..10 : Digits[d] = c
DigitVal(c) == (CHOOSE d \in 1..10 : Digits[d] = c) - 1
IsSpace(c) == c = " "

\* String.prototype.trim
RECURSIVE TrimLeft(_)
TrimLeft(s) ==
    IF s # <<>> /\ IsSpace(Head(s)) THEN TrimLeft(Tail(s)) ELSE s
RECURSIVE TrimRight(_)
TrimRight(s) ==
    IF s # <<>> /\ IsSpace(s[Len(s)])
    THEN TrimRight(SubSeq(s, 1, Len(s) - 1))
    ELSE s
Trim(s) == TrimRight(TrimLeft(s))

\* value of a digit string, most significant digit first
RECURSIVE DigitsValue(_)
DigitsValue(s) ==
    IF s = <<>> THEN 0
    ELSE 10 * DigitsValue(SubSeq(s, 1, Len(s) - 1)) + DigitVal(s[Len(s)])

\* Number(string): white space is stripped, the empty string is 0, a string
\* of decimal digits is its value and any other string is NaN.  (Signs,
\* fractions and exponents are outside the alphabet the model draws from.)
StringToNumber(s) ==
    LET t == Trim(s) IN
    IF t = <<>> THEN Num(0)
    ELSE IF \A i \in 1..Len(t) : IsDigit(t[i]) THEN Num(DigitsValue(t))
    ELSE NaN

\* Number(value)
Number(v) ==
    IF v.type = "number" THEN v
    ELSE IF v.type = "string" THEN StringToNumber(v.s)
    ELSE NaN

isNaN(v) == v.nan

\* row[key] on an object whose keys are DOMAIN row
Get(row, key) == IF key \in DOMAIN row THEN row[key] ELSE Undefined

\* the test `typeof val === 'number' || !isNaN(Number(val))`
IsNumeric(val) == val.type = "number" \/ ~isNaN(Number(val))

\* the object literal {}
EmptyObject == [k \in {} |-> Undefined]

(***************************************************************************)
(* dataTypeDetection                                                       *)
(***************************************************************************)
DataTypes == {"auto", "category", "timeseries", "multiseries"}
Shapes == {"category", "timeseries", "multiseries"}
allCharts == <<"pie", "bar", "line", "area">>
ChartKinds == {"pie", "bar", "line", "area"}

Range(f) == {f[i] : i \in DOMAIN f}

\* columns.slice(1)
Slice1(seq) == IF seq = <<>> THEN <<>> ELSE Tail(seq)

\* firstColValues.every(val => typeof val === 'number' || !isNaN(Number(val)))
FirstColNumeric(columns_, rows_) ==
    \A i \in 1..Len(rows_) : IsNumeric(Get(rows_[i], columns_[1]))

\* faulty variant: the first column is tested with the others
OtherColsNumericAllColumns(columns_, rows_) ==
    \A j \in 1..Len(columns_) :
        \A i \in 1..Len(rows_) : IsNumeric(Get(rows_[i], columns_[j]))

\* columns.slice(1).every(col => rows.every(row => numeric(row[col])))
OtherColsNumeric(columns_, rows_) ==
    \A j \in 1..Len(Slice1(columns_)) :
        \A i \in 1..Len(rows_) : IsNumeric(Get(rows_[i], Slice1(columns_)[j]))

\* faulty variant: the column test of case 1 is off by one
IsCase1TwoColumnsMissed(columns_, rows_) == Len(rows_) = 1 /\ Len(columns_) > 2
\* faulty variant: case 1 also takes the dataset without rows
IsCase1AtMostOneRow(columns_, rows_) == Len(rows_) <= 1 /\ Len(columns_) > 1
\* Case 1: rows.length === 1 && columns.length > 1
IsCase1(columns_, rows_) == Len(rows_) = 1 /\ Len(columns_) > 1
\* Case 2: rows.length > 1 && columns.length === 2
IsCase2(columns_, rows_) == Len(rows_) > 1 /\ Len(columns_) = 2
\* Case 3: rows.length > 1 && columns.length >= 3
IsCase3(columns_, rows_) == Len(rows_) > 1 /\ Len(columns_) >= 3
\* Case 4: rows.length > 1 && columns.length === 1
IsCase4(columns_, rows_) == Len(rows_) > 1 /\ Len(columns_) = 1

Case1Result ==
    [type |-> "category", confidence |-> "high",
     recommendedCharts |-> <<"pie", "bar">>,
     reason |-> "1 baris dengan banyak kategori - cocok untuk melihat proporsi/persentase"]
Case2NumericResult ==
    [type |-> "timeseries", confidence |-> "high",
     recommendedCharts |-> <<"line", "area", "bar">>,
     reason |-> "Data berurutan dengan 1 metrik - cocok untuk melihat tren"]
Case2LabelResult ==
    [type |-> "timeseries", confidence |-> "medium",
     recommendedCharts |-> <<"line", "area", "bar">>,
     reason |-> "Data dengan label dan 1 metrik - cocok untuk melihat perubahan"]
Case3Result ==
    [type |-> "multiseries", confidence |-> "high",
     recommendedCharts |-> <<"line", "area", "bar">>,
     reason |-> "Multiple series untuk dibandingkan - cocok untuk melihat perbedaan tren"]
\* faulty variant: case 4 reports the confidence of case 2
Case4ResultMedium ==
    [type |-> "category", confidence |-> "medium",
     recommendedCharts |-> <<"bar">>,
     reason |-> "Data sederhana dengan 1 kolom"]
Case4Result ==
    [type |-> "category", confidence |-> "low",
     recommendedCharts |-> <<"bar">>,
     reason |-> "Data sederhana dengan 1 kolom"]
DefaultResult ==
    [type |-> "multiseries", confidence |-> "low",
     recommendedCharts |-> <<"bar", "line">>,
     reason |-> "Struktur data kompleks - pilih visualisasi yang sesuai"]

detectDataType(data_) ==
    LET cols == data_.columns
        rws == data_.rows
    IN
    IF IsCase1(cols, rws) THEN Case1Result
    ELSE IF IsCase2(cols, rws) THEN
        IF FirstColNumeric(cols, rws) THEN Case2NumericResult
        ELSE Case2LabelResult
    ELSE IF IsCase3(cols, rws) /\ OtherColsNumeric(cols, rws) THEN Case3Result
    ELSE IF IsCase4(cols, rws) THEN Case4Result
    ELSE DefaultResult

\* faulty variant: the bar chart is not recommended for a time series
getRecommendedChartsNoBarForTimeSeries(dataType) ==
    LET recommended ==
            CASE dataType = "category" -> <<"pie", "bar">>
              [] dataType = "timeseries" -> <<"line", "area">>
              [] dataType = "multiseries" -> <<"line", "area", "bar">>
              [] OTHER -> allCharts
        NotIn(chart) == chart \notin Range(recommended)
    IN [recommended |-> recommended,
        notRecommended |-> SelectSeq(allCharts, NotIn)]

getRecommendedCharts(dataType) ==
    LET recommended ==
            CASE dataType = "category" -> <<"pie", "bar">>
              [] dataType = "timeseries" -> <<"line", "area", "bar">>
              [] dataType = "multiseries" -> <<"line", "area", "bar">>
              [] OTHER -> allCharts
        NotIn(chart) == chart \notin Range(recommended)
    IN [recommended |-> recommended,
        notRecommended |-> SelectSeq(allCharts, NotIn)]

suitabilityMatrix ==
    [auto |->
        [pie |-> [suitable |-> TRUE, reason |-> "Auto-detect akan menentukan kesesuaian"],
         bar |-> [suitable |-> TRUE, reason |-> "Auto-detect akan menentukan kesesuaian"],
         line |-> [suitable |-> TRUE, reason |-> "Auto-detect akan menentukan kesesuaian"],
         area |-> [suitable |-> TRUE, reason |-> "Auto-detect akan menentukan kesesuaian"]],
     category |->
        [pie |-> [suitable |-> TRUE, reason |-> "Ideal untuk melihat proporsi/persentase tiap kategori"],
         bar |-> [suitable |-> TRUE, reason |-> "Bagus untuk membandingkan nilai antar kategori"],
         line |-> [suitable |-> FALSE, reason |-> "Tidak cocok - data tidak memiliki kontinuitas waktu"],
         area |-> [suitable |-> FALSE, reason |-> "Tidak cocok - data tidak memiliki kontinuitas waktu"]],
     timeseries |->
        [pie |-> [suitable |-> FALSE, reason |-> "Tidak cocok - pie chart untuk proporsi, bukan tren waktu"],
         bar |-> [suitable |-> TRUE, reason |-> "Bisa digunakan untuk melihat perubahan per periode"],
         line |-> [suitable |-> TRUE, reason |-> "Ideal untuk melihat tren dan pola perubahan"],
         area |-> [suitable |-> TRUE, reason |-> "Bagus untuk melihat volume dan akumulasi"]],
     multiseries |->
        [pie |-> [suitable |-> FALSE, reason |-> "Tidak cocok - pie chart hanya untuk 1 series"],
         bar |-> [suitable |-> TRUE, reason |-> "Bagus untuk membandingkan nilai antar series"],
         line |-> [suitable |-> TRUE, reason |-> "Ideal untuk membandingkan tren multiple series"],
         area |-> [suitable |-> TRUE, reason |-> "Bagus untuk melihat kontribusi tiap series (stacked)"]]]

\* faulty variant: the line chart is marked suitable for category data
getChartSuitabilityLineForCategory(chartType, dataType) ==
    [suitabilityMatrix EXCEPT !.category.line.suitable = TRUE][dataType][chartType]
getChartSuitability(chartType, dataType) == suitabilityMatrix[dataType][chartType]

(***************************************************************************)
(* dataTypeDetection, manual-only variant: the data type is one of the     *)
(* three shapes and there is no classifier.                                *)
(***************************************************************************)
infoMap ==
    [category |->
        [type |-> "category",
         recommendedCharts |-> <<"pie", "bar">>,
         disabledCharts |-> <<"line", "area">>],
     timeseries |->
        [type |-> "timeseries",
         recommendedCharts |-> <<"line", "area", "bar">>,
         disabledCharts |-> <<"pie">>],
     multiseries |->
        [type |-> "multiseries",
         recommendedCharts |-> <<"line", "area", "bar">>,
         disabledCharts |-> <<"pie">>]]

getDataTypeInfo(dataType) == infoMap[dataType]

manualSuitabilityMatrix ==
    [category |->
        [pie |-> [suitable |-> TRUE, reason |-> "Ideal untuk melihat proporsi/persentase tiap kategori"],
         bar |-> [suitable |-> TRUE, reason |-> "Bagus untuk membandingkan nilai antar kategori"],
         line |-> [suitable |-> FALSE, reason |-> "Tidak cocok - data kategori tidak memiliki kontinuitas waktu"],
         area |-> [suitable |-> FALSE, reason |-> "Tidak cocok - data kategori tidak memiliki kontinuitas waktu"]],
     timeseries |->
        [pie |-> [suitable |-> FALSE, reason |-> "Tidak cocok - pie chart untuk proporsi, bukan tren waktu"],
         bar |-> [suitable |-> TRUE, reason |-> "Bisa digunakan untuk melihat perubahan per periode"],
         line |-> [suitable |-> TRUE, reason |-> "Ideal untuk melihat tren dan pola perubahan"],
         area |-> [suitable |-> TRUE, reason |-> "Bagus untuk melihat volume dan akumulasi"]],
     multiseries |->
        [pie |-> [suitable |-> FALSE, reason |-> "Tidak cocok - pie chart hanya untuk 1 series"],
         bar |-> [suitable |-> TRUE, reason |-> "Bagus untuk membandingkan nilai antar series"],
         line |-> [suitable |-> TRUE, reason |-> "Ideal untuk membandingkan tren multiple series"],
         area |-> [suitable |-> TRUE, reason |-> "Bagus untuk melihat kontribusi tiap series (stacked)"]]]

manualGetChartSuitability(chartType, dataType) ==
    manualSuitabilityMatrix[dataType][chartType]

\* faulty variant: a chart is enabled whatever the list of disabled charts
isChartEnabledAlways(chartType, dataType) ==
    LET info == getDataTypeInfo(dataType) IN TRUE

\* !info.disabledCharts.includes(chartType)
isChartEnabled(chartType, dataType) ==
    LET info == getDataTypeInfo(dataType)
    IN  chartType \notin Range(info.disabledCharts)

(***************************************************************************)
(* colorThemes                                                             *)
(***************************************************************************)
COLOR_THEMES ==
    << [name |-> "Default",
        colors |-> <<"#3B82F6", "#10B981", "#F59E0B", "#EF4444", "#8B5CF6", "#EC4899", "#14B8A6", "#F97316">>],
       [name |-> "Ocean",
        colors |-> <<"#0EA5E9", "#06B6D4", "#14B8A6", "#10B981", "#22C55E", "#84CC16", "#A3E635", "#BEF264">>],
       [name |-> "Sunset",
        colors |-> <<"#F97316", "#FB923C", "#FBBF24", "#FCD34D", "#FDE047", "#FEF08A", "#FEF9C3", "#FFFBEB">>],
       [name |-> "Purple",
        colors |-> <<"#9333EA", "#A855F7", "#C084FC", "#D8B4FE", "#E9D5FF", "#F3E8FF", "#FAF5FF", "#FEFCE8">>],
       [name |-> "Forest",
        colors |-> <<"#065F46", "#047857", "#059669", "#10B981", "#34D399", "#6EE7B7", "#A7F3D0", "#D1FAE5">>],
       [name |-> "Fire",
        colors |-> <<"#991B1B", "#DC2626", "#EF4444", "#F87171", "#FCA5A5", "#FECACA", "#FEE2E2", "#FEF2F2">>],
       [name |-> "Royal",
        colors |-> <<"#1E3A8A", "#1E40AF", "#2563EB", "#3B82F6", "#60A5FA", "#93C5FD", "#BFDBFE", "#DBEAFE">>],
       [name |-> "Pastel",
        colors |-> <<"#FBCFE8", "#F9A8D4", "#F472B6", "#EC4899", "#DB2777", "#BE185D", "#9D174D", "#831843">>],
       [name |-> "Neon",
        colors |-> <<"#FF00FF", "#00FFFF", "#00FF00", "#FFFF00", "#FF6600", "#FF0066", "#6600FF", "#00FF66">>],
       [name |-> "Monochrome",
        colors |-> <<"#1F2937", "#374151", "#4B5563", "#6B7280", "#9CA3AF", "#D1D5DB", "#E5E7EB", "#F3F4F6">>] >>

\* COLOR_THEMES.find(t => t.name === selectedTheme)?.colors || COLOR_THEMES[0].colors
ThemeColors(themeName) ==
    IF \E i \in 1..Len(COLOR_THEMES) : COLOR_THEMES[i].name = themeName
    THEN COLOR_THEMES[CHOOSE i \in 1..Len(COLOR_THEMES) :
                          /\ COLOR_THEMES[i].name = themeName
                          /\ \A j \in 1..(i - 1) : COLOR_THEMES[j].name # themeName].colors
    ELSE COLOR_THEMES[1].colors

(***************************************************************************)
(* ChartDisplay                                                            *)
(***************************************************************************)
\* data.dataType || 'category'
DisplayDataType(data_) ==
    IF data_.dataType = "undefined" THEN "category" ELSE data_.dataType

Message(text) == [kind |-> "message", element |-> "div", layout |-> "none", text |-> text]
Chart(element, layout) == [kind |-> "chart", element |-> element, layout |-> layout, text |-> ""]
Nothing == [kind |-> "null", element |-> "none", layout |-> "none", text |-> ""]

\* faulty variant: the pie chart is drawn for every data type
renderPieUngated(dataType) == Chart("PieChart", "category")

\* case 'pie'
renderPie(dataType) ==
    IF dataType # "category"
    THEN Message("Pie chart hanya tersedia untuk tipe data Kategori")
    ELSE Chart("PieChart", "category")

\* case 'bar'
renderBar(dataType) ==
    IF dataType = "category" THEN Chart("BarChart", "category")
    ELSE IF dataType = "timeseries" THEN Chart("BarChart", "timeseries")
    ELSE Chart("BarChart", "multiseries")

\* case 'line'
renderLine(dataType) ==
    IF dataType = "category"
    THEN Message("Line chart tidak cocok untuk tipe data Kategori")
    ELSE IF dataType = "timeseries" THEN Chart("LineChart", "timeseries")
    ELSE Chart("LineChart", "multiseries")

\* case 'area'
renderArea(dataType) ==
    IF dataType = "category"
    THEN Message("Area chart tidak cocok untuk tipe data Kategori")
    ELSE IF dataType = "timeseries" THEN Chart("AreaChart", "timeseries")
    ELSE Chart("AreaChart", "multiseries")

\* what renderChart returns: a <div> with a message, or a recharts element
renderChart(data_, chartType) ==
    LET dataType == DisplayDataType(data_) IN
    CASE chartType = "pie" -> renderPie(dataType)
      [] chartType = "bar" -> renderBar(dataType)
      [] chartType = "line" -> renderLine(dataType)
      [] chartType = "area" -> renderArea(dataType)
      [] OTHER -> Nothing

(***************************************************************************)
(* App: state                                                              *)
(***************************************************************************)
VARIABLES
    tableName,          \* useState('')
    columns,            \* useState(['']): the header inputs of the form
    rows,               \* useState([{}]): one object per row of the form
    tableData,          \* useState(null): the generated dataset
    viewType,           \* useState('table')
    selectedTheme,      \* useState('Default')
    customColors,       \* useState({}): column name -> picked colour
    useCustomColors,    \* useState(false)
    dataTypeMode,       \* useState('auto')
    detectedDataType,   \* useState(null)
    alertMsg,           \* the alert() the last handler raised, "" if none
    steps,              \* handlers run since construction or the last reset
    data,               \* argument of a direct call of detectDataType
    detection,          \* the DataTypeInfo that call returned
    props,              \* the data prop of a directly rendered ChartDisplay
    chartData           \* what prepareChartData returned for it

appVars == <<tableName, columns, rows, tableData, viewType, selectedTheme,
             customColors, useCustomColors, dataTypeMode, detectedDataType,
             alertMsg, steps>>
callVars == <<data, detection>>
chartVars == <<props, chartData>>
vars == <<tableName, columns, rows, tableData, viewType, selectedTheme,
          customColors, useCustomColors, dataTypeMode, detectedDataType,
          alertMsg, steps, data, detection, props, chartData>>

\* tableData === null
NullTableData ==
    [isNull |-> TRUE, name |-> <<>>, columns |-> <<>>, rows |-> <<>>,
     colors |-> <<>>, dataType |-> "undefined"]

NoData == [name |-> <<>>, columns |-> <<>>, rows |-> <<>>]
NoDetection ==
    [type |-> "none", confidence |-> "none", recommendedCharts |-> <<>>,
     reason |-> ""]

\* what the user can type or pick
TableNameInputs == {<<>>, <<"T">>}
ColumnNameInputs == {<<>>, <<"a">>, <<"b">>}
CellInputs == {<<>>, <<"7">>, <<"x">>}
ThemeInputs == {"Default", "Ocean"}
ColorInputs == {"#ff0000"}
ViewTypes == {"table", "pie", "bar", "line", "area"}

AppInit ==
    /\ tableName = <<>>
    /\ columns = << <<>> >>
    /\ rows = <<EmptyObject>>
    /\ tableData = NullTableData
    /\ viewType = "table"
    /\ selectedTheme = "Default"
    /\ customColors = EmptyObject
    /\ useCustomColors = FALSE
    /\ dataTypeMode = "auto"
    /\ detectedDataType = "null"
    /\ alertMsg = ""
    /\ steps = 0

\* no series prepared yet
NoChartData == [layout |-> "none", entries |-> <<>>, records |-> <<>>]

Init ==
    /\ AppInit
    /\ data = NoData
    /\ detection = NoDetection
    /\ props = NullTableData
    /\ chartData = NoChartData

(***************************************************************************)
(* App: helpers of the handlers                                            *)
(***************************************************************************)
\* array.filter((_, i) => i !== index)
RemoveAt(seq, index) ==
    SubSeq(seq, 1, index - 1) \o SubSeq(seq, index + 1, Len(seq))

\* { ...obj }; delete copy[key]
Delete(obj, key) == [k \in DOMAIN obj \ {key} |-> obj[k]]

\* { ...obj, [key]: value }
Put(obj, key, value) ==
    [k \in DOMAIN obj \cup {key} |-> IF k = key THEN value ELSE obj[k]]

\* newRow[value] = newRow[old]; delete newRow[old]   (old in newRow)
MoveKey(obj, old, new) == Delete(Put(obj, new, obj[old]), old)

\* truthiness of a cell: a non-empty string or a non-zero number
Truthy(v) ==
    \/ v.type = "string" /\ v.s # <<>>
    \/ v.type = "number" /\ ~v.nan /\ v.n # 0

\* String(value) then trim() !== ''
\* (String of a number has no white space to trim and is never empty)
StringTrimNonEmpty(v) ==
    IF v.type = "string" THEN Trim(v.s) # <<>> ELSE TRUE

IsBlank(s) == Trim(s) = <<>>
NonBlank(s) == Trim(s) # <<>>

\* columns.filter(col => col.trim() !== '')
ValidColumns(cols) == SelectSeq(cols, NonBlank)

\* Object.keys(row).some(key => row[key] && String(row[key]).trim() !== '')
RowHasValue(row) ==
    \E key \in DOMAIN row : Truthy(row[key]) /\ StringTrimNonEmpty(row[key])

\* rows.filter(row => ...)
ValidRows(rws) == SelectSeq(rws, RowHasValue)

getColors ==
    IF useCustomColors
    THEN LET themeColors == ThemeColors(selectedTheme) IN
         [index \in 1..Len(columns) |->
            IF columns[index] \in DOMAIN customColors
               /\ customColors[columns[index]] # ""
            THEN customColors[columns[index]]
            ELSE themeColors[((index - 1) % Len(themeColors)) + 1]]
    ELSE ThemeColors(selectedTheme)

(***************************************************************************)
(* App: handlers.  Every handler runs to completion in one UI event; the   *)
(* state setters it calls take effect together at the next render.         *)
(***************************************************************************)
\* bookkeeping shared by the handlers that raise no alert
Step ==
    /\ steps < MaxSteps
    /\ steps' = steps + 1
    /\ alertMsg' = ""

\* onChange of the table name input
setTableName(value) ==
    /\ Step
    /\ tableName' = value
    /\ UNCHANGED <<columns, rows, tableData, viewType, selectedTheme,
                   customColors, useCustomColors, dataTypeMode,
                   detectedDataType, data, detection, props, chartData>>

\* onChange of the data type <select>
setDataTypeMode(value) ==
    /\ Step
    /\ dataTypeMode' = value
    /\ UNCHANGED <<tableName, columns, rows, tableData, viewType,
                   selectedTheme, customColors, useCustomColors,
                   detectedDataType, data, detection, props, chartData>>

\* onChange of the theme <select>, disabled while custom colours are on
setSelectedTheme(value) ==
    /\ Step
    /\ ~useCustomColors
    /\ selectedTheme' = value
    /\ UNCHANGED <<tableName, columns, rows, tableData, viewType,
                   customColors, useCustomColors, dataTypeMode,
                   detectedDataType, data, detection, props, chartData>>

\* onChange of the "use custom colours" checkbox
setUseCustomColors(checked) ==
    /\ Step
    /\ useCustomColors' = checked
    /\ UNCHANGED <<tableName, columns, rows, tableData, viewType,
                   selectedTheme, customColors, dataTypeMode,
                   detectedDataType, data, detection, props, chartData>>

addColumn ==
    /\ Step
    /\ Len(columns) < MaxCols
    /\ columns' = Append(columns, <<>>)
    /\ UNCHANGED <<tableName, rows, tableData, viewType, selectedTheme,
                   customColors, useCustomColors, dataTypeMode,
                   detectedDataType, data, detection, props, chartData>>

\* the remove button is rendered only when columns.length > 1
removeColumn(index) ==
    /\ Step
    /\ Len(columns) > 1
    /\ index \in 1..Len(columns)
    /\ LET columnName == columns[index] IN
        /\ columns' = RemoveAt(columns, index)
        /\ rows' = [i \in 1..Len(rows) |-> Delete(rows[i], columnName)]
        /\ customColors' = Delete(customColors, columnName)
    /\ UNCHANGED <<tableName, tableData, viewType, selectedTheme,
                   useCustomColors, dataTypeMode, detectedDataType,
                   data, detection, props, chartData>>

updateColumn(index, value) ==
    /\ Step
    /\ index \in 1..Len(columns)
    /\ LET oldColumnName == columns[index] IN
        /\ columns' = [columns EXCEPT ![index] = value]
        /\ IF oldColumnName # <<>> /\ oldColumnName # value
           THEN /\ rows' = [i \in 1..Len(rows) |->
                              IF oldColumnName \in DOMAIN rows[i]
                              THEN MoveKey(rows[i], oldColumnName, value)
                              ELSE rows[i]]
                /\ IF oldColumnName \in DOMAIN customColors
                      /\ customColors[oldColumnName] # ""
                   THEN customColors' =
                            MoveKey(customColors, oldColumnName, value)
                   ELSE UNCHANGED customColors
           ELSE UNCHANGED <<rows, customColors>>
    /\ UNCHANGED <<tableName, tableData, viewType, selectedTheme,
                   useCustomColors, dataTypeMode, detectedDataType,
                   data, detection, props, chartData>>

\* the colour picker is rendered for non-blank columns while custom
\* colours are on
updateColumnColor(index, color) ==
    /\ Step
    /\ useCustomColors
    /\ index \in 1..Len(columns)
    /\ NonBlank(columns[index])
    /\ customColors' = Put(customColors, columns[index], color)
    /\ UNCHANGED <<tableName, columns, rows, tableData, viewType,
                   selectedTheme, useCustomColors, dataTypeMode,
                   detectedDataType, data, detection, props, chartData>>

addRow ==
    /\ Step
    /\ Len(rows) < MaxRows
    /\ rows' = Append(rows, EmptyObject)
    /\ UNCHANGED <<tableName, columns, tableData, viewType, selectedTheme,
                   customColors, useCustomColors, dataTypeMode,
                   detectedDataType, data, detection, props, chartData>>

\* faulty variant: the remove button is rendered for a single row too
removeRowAlwaysOffered(index) ==
    /\ Step
    /\ Len(rows) > 0
    /\ index \in 1..Len(rows)
    /\ rows' = RemoveAt(rows, index)
    /\ UNCHANGED <<tableName, columns, tableData, viewType, selectedTheme,
                   customColors, useCustomColors, dataTypeMode,
                   detectedDataType, data, detection, props, chartData>>

\* the remove button is rendered only when rows.length > 1
removeRow(index) ==
    /\ Step
    /\ Len(rows) > 1
    /\ index \in 1..Len(rows)
    /\ rows' = RemoveAt(rows, index)
    /\ UNCHANGED <<tableName, columns, tableData, viewType, selectedTheme,
                   customColors, useCustomColors, dataTypeMode,
                   detectedDataType, data, detection, props, chartData>>

\* a cell input is rendered for every non-blank column of every row
updateCell(rowIndex, colIndex, value) ==
    /\ Step
    /\ rowIndex \in 1..Len(rows)
    /\ colIndex \in 1..Len(columns)
    /\ NonBlank(columns[colIndex])
    /\ rows' = [rows EXCEPT
                  ![rowIndex] = Put(rows[rowIndex], columns[colIndex], Str(value))]
    /\ UNCHANGED <<tableName, columns, tableData, viewType, selectedTheme,
                   customColors, useCustomColors, dataTypeMode,
                   detectedDataType, data, detection, props, chartData>>

\* faulty variant: the selected mode is stored as it is
finalDataTypeAsSelected(mode, detected) == mode

\* faulty variant: the detected shape is stored whatever the mode
finalDataTypeAsDetected(mode, detected) == detected.type

\* dataTypeMode === 'auto' ? detection.type : dataTypeMode
finalDataType(mode, detected) ==
    IF mode = "auto" THEN detected.type ELSE mode

\* generateTable, first early return
generateTableNoName ==
    /\ steps < MaxSteps
    /\ IsBlank(tableName) \/ Len(ValidColumns(columns)) = 0
    /\ steps' = steps + 1
    /\ alertMsg' = "Mohon isi nama tabel dan minimal satu kolom"
    /\ UNCHANGED <<tableName, columns, rows, tableData, viewType,
                   selectedTheme, customColors, useCustomColors,
                   dataTypeMode, detectedDataType, data, detection, props, chartData>>

\* faulty variant: the second early return also switches to the table view
generateTableNoRowsShowsTable ==
    /\ steps < MaxSteps
    /\ ~(IsBlank(tableName) \/ Len(ValidColumns(columns)) = 0)
    /\ Len(ValidRows(rows)) = 0
    /\ steps' = steps + 1
    /\ alertMsg' = "Mohon isi minimal satu baris data"
    /\ viewType' = "table"
    /\ UNCHANGED <<tableName, columns, rows, tableData,
                   selectedTheme, customColors, useCustomColors,
                   dataTypeMode, detectedDataType, data, detection, props, chartData>>

\* generateTable, second early return
generateTableNoRows ==
    /\ steps < MaxSteps
    /\ ~(IsBlank(tableName) \/ Len(ValidColumns(columns)) = 0)
    /\ Len(ValidRows(rows)) = 0
    /\ steps' = steps + 1
    /\ alertMsg' = "Mohon isi minimal satu baris data"
    /\ UNCHANGED <<tableName, columns, rows, tableData, viewType,
                   selectedTheme, customColors, useCustomColors,
                   dataTypeMode, detectedDataType, data, detection, props, chartData>>

\* generateTable, the dataset is stored
generateTableOk ==
    /\ Step
    /\ ~(IsBlank(tableName) \/ Len(ValidColumns(columns)) = 0)
    /\ Len(ValidRows(rows)) # 0
    /\ LET validColumns == ValidColumns(columns)
           validRows == ValidRows(rows)
           tempData == [name |-> tableName, columns |-> validColumns,
                        rows |-> validRows]
           detected == detectDataType(tempData)
       IN /\ detectedDataType' = detected.type
          /\ tableData' = [isNull |-> FALSE, name |-> tableName,
                           columns |-> validColumns, rows |-> validRows,
                           colors |-> getColors,
                           dataType |-> finalDataType(dataTypeMode, detected)]
          /\ viewType' = "table"
    /\ UNCHANGED <<tableName, columns, rows, selectedTheme, customColors,
                   useCustomColors, dataTypeMode, data, detection, props, chartData>>

\* faulty variant: the detected shape survives a reset
resetFormKeepsDetected ==
    /\ tableName' = <<>>
    /\ columns' = << <<>> >>
    /\ rows' = <<EmptyObject>>
    /\ tableData' = NullTableData
    /\ viewType' = "table"
    /\ selectedTheme' = "Default"
    /\ customColors' = EmptyObject
    /\ useCustomColors' = FALSE
    /\ dataTypeMode' = "auto"
    /\ detectedDataType' = detectedDataType
    /\ alertMsg' = ""
    /\ steps' = 0
    /\ UNCHANGED <<data, detection, props, chartData>>

\* faulty variant: the selected theme survives a reset
resetFormKeepsTheme ==
    /\ tableName' = <<>>
    /\ columns' = << <<>> >>
    /\ rows' = <<EmptyObject>>
    /\ tableData' = NullTableData
    /\ viewType' = "table"
    /\ selectedTheme' = selectedTheme
    /\ customColors' = EmptyObject
    /\ useCustomColors' = FALSE
    /\ dataTypeMode' = "auto"
    /\ detectedDataType' = "null"
    /\ alertMsg' = ""
    /\ steps' = 0
    /\ UNCHANGED <<data, detection, props, chartData>>

resetForm ==
    /\ tableName' = <<>>
    /\ columns' = << <<>> >>
    /\ rows' = <<EmptyObject>>
    /\ tableData' = NullTableData
    /\ viewType' = "table"
    /\ selectedTheme' = "Default"
    /\ customColors' = EmptyObject
    /\ useCustomColors' = FALSE
    /\ dataTypeMode' = "auto"
    /\ detectedDataType' = "null"
    /\ alertMsg' = ""
    /\ steps' = 0
    /\ UNCHANGED <<data, detection, props, chartData>>

\* the view buttons are rendered only once a dataset is stored
setViewType(type) ==
    /\ Step
    /\ ~tableData.isNull
    /\ viewType' = type
    /\ UNCHANGED <<tableName, columns, rows, tableData, selectedTheme,
                   customColors, useCustomColors, dataTypeMode,
                   detectedDataType, data, detection, props, chartData>>

\* tableData.dataType || 'auto'
EffectiveDataType ==
    IF tableData.dataType = "undefined" THEN "auto" ELSE tableData.dataType

getChartRecommendations ==
    IF tableData.isNull
    THEN [recommended |-> <<>>, notRecommended |-> <<>>]
    ELSE getRecommendedCharts(EffectiveDataType)

\* the suitability looked up for a chart button of the display area
ButtonSuitability(type) == getChartSuitability(type, EffectiveDataType)

\* what the display area shows for the current state
Display ==
    IF tableData.isNull THEN Message("Silakan isi data dan klik \"Generate Tabel\"")
    ELSE IF viewType = "table" THEN Chart("DataTable", "table")
    ELSE renderChart(tableData, viewType)

Next ==
    \/ \E value \in TableNameInputs : setTableName(value)
    \/ \E value \in DataTypes : setDataTypeMode(value)
    \/ \E value \in ThemeInputs : setSelectedTheme(value)
    \/ \E checked \in BOOLEAN : setUseCustomColors(checked)
    \/ addColumn
    \/ \E index \in 1..MaxCols : removeColumn(index)
    \/ \E index \in 1..MaxCols, value \in ColumnNameInputs :
            updateColumn(index, value)
    \/ \E index \in 1..MaxCols, color \in ColorInputs :
            updateColumnColor(index, color)
    \/ addRow
    \/ \E index \in 1..MaxRows : removeRow(index)
    \/ \E rowIndex \in 1..MaxRows, colIndex \in 1..MaxCols,
          value \in CellInputs : updateCell(rowIndex, colIndex, value)
    \/ generateTableNoName
    \/ generateTableNoRows
    \/ generateTableOk
    \/ resetForm
    \/ \E type \in ViewTypes : setViewType(type)

Spec == Init /\ [][Next]_vars

(***************************************************************************)
(* detectDataType called directly on an arbitrary dataset of at most       *)
(* MaxCells cells: the columns are the first n names of ColumnPool, a row  *)
(* holds any subset of them and a cell is a number, a numeric string, the  *)
(* empty string, a blank string or a text.                                 *)
(***************************************************************************)
ColumnPool ==
    << <<"a">>, <<"b">>, <<"c">>, <<"d">>, <<"e">>, <<"f">>, <<"g">>, <<"h">> >>
CellValues == {Num(5), Str(<<"7">>), Str(<<>>), Str(<<" ">>), Str(<<"x">>)}

RowsOver(cols) == UNION {[keys -> CellValues] : keys \in SUBSET Range(cols)}

InitDetect ==
    /\ AppInit
    /\ \E n \in 0..MaxCells, m \in 0..MaxCells :
          /\ n * m <= MaxCells
          /\ \E rws \in [1..m -> RowsOver(SubSeq(ColumnPool, 1, n))] :
                data = [name |-> <<"T">>,
                        columns |-> SubSeq(ColumnPool, 1, n),
                        rows |-> rws]
    /\ detection = NoDetection
    /\ props = NullTableData
    /\ chartData = NoChartData

Detect ==
    /\ detection = NoDetection
    /\ detection' = detectDataType(data)
    /\ UNCHANGED <<tableName, columns, rows, tableData, viewType,
                   selectedTheme, customColors, useCustomColors,
                   dataTypeMode, detectedDataType, alertMsg, steps, data,
                   props, chartData>>

NextDetect == Detect

SpecDetect == InitDetect /\ [][NextDetect]_vars

(***************************************************************************)
(* ChartDisplay.prepareChartData.  A prepared series is either a list of   *)
(* { name, value, color } entries (the transposed single row) or a list of *)
(* objects keyed by strings, one per row.                                  *)
(***************************************************************************)
DEFAULT_COLORS ==
    <<"#3B82F6", "#10B981", "#F59E0B", "#EF4444", "#8B5CF6", "#EC4899", "#14B8A6", "#F97316">>

\* data.colors || DEFAULT_COLORS  (an absent colors prop is <<>> here)
COLORS(data_) == IF data_.colors = <<>> THEN DEFAULT_COLORS ELSE data_.colors

\* a || b
Or(a, b) == IF Truthy(a) THEN a ELSE b

\* typeof value === 'string' ? Number(value) || 0 : value || 0
CoerceOrZero(value) ==
    IF value.type = "string" THEN Or(Number(value), Num(0))
    ELSE Or(value, Num(0))

\* typeof value === 'string' && !isNaN(Number(value)) ? Number(value)
\*                                                     : value || ''
CoerceOrKeep(value) ==
    IF value.type = "string" /\ ~isNaN(Number(value)) THEN Number(value)
    ELSE Or(value, Str(<<>>))

\* String(n) of a non-negative integer
RECURSIVE NumberToString(_)
NumberToString(k) ==
    IF k < 10 THEN <<Digits[k + 1]>>
    ELSE NumberToString(k \div 10) \o <<Digits[(k % 10) + 1]>>

\* the keys 'index' and 'indexLabel' of a time series record
KeyIndex == <<"i", "n", "d", "e", "x">>
KeyIndexLabel == <<"i", "n", "d", "e", "x", "L", "a", "b", "e", "l">>
\* `Baris ${rowIndex + 1}`
RowLabel(k) == <<"B", "a", "r", "i", "s", " ">> \o NumberToString(k)

\* the guard of the transposition
IsSingleRowMultipleColumns(data_) ==
    Len(data_.rows) = 1 /\ Len(data_.columns) > 1

\* data.columns.map((col, index) => ({ name, value, color }))
CategoryEntries(data_) ==
    [index \in 1..Len(data_.columns) |->
        [name |-> data_.columns[index],
         value |-> CoerceOrZero(Get(data_.rows[1], data_.columns[index])),
         color |-> COLORS(data_)[((index - 1) % Len(COLORS(data_))) + 1]]]

\* the record of row k: index and indexLabel first, then every column in
\* order, a later assignment to the same key replacing the earlier one
TimeSeriesRecord(data_, k) ==
    [key \in {KeyIndex, KeyIndexLabel} \cup Range(data_.columns) |->
        IF key \in Range(data_.columns)
        THEN CoerceOrZero(Get(data_.rows[k], key))
        ELSE IF key = KeyIndex THEN Num(k)
        ELSE Str(RowLabel(k))]

TimeSeriesRecords(data_) ==
    [k \in 1..Len(data_.rows) |-> TimeSeriesRecord(data_, k)]

\* the record of row k with every column coerced or kept
KeptRecord(data_, k) ==
    [key \in Range(data_.columns) |-> CoerceOrKeep(Get(data_.rows[k], key))]

KeptRecords(data_) == [k \in 1..Len(data_.rows) |-> KeptRecord(data_, k)]

prepareChartData(data_) ==
    LET dataType == DisplayDataType(data_) IN
    IF dataType = "category" /\ IsSingleRowMultipleColumns(data_)
    THEN [layout |-> "category", entries |-> CategoryEntries(data_),
          records |-> <<>>]
    ELSE IF dataType = "timeseries"
    THEN [layout |-> "timeseries", entries |-> <<>>,
          records |-> TimeSeriesRecords(data_)]
    ELSE IF dataType = "multiseries"
    THEN [layout |-> "multiseries", entries |-> <<>>,
          records |-> KeptRecords(data_)]
    ELSE [layout |-> "fallback", entries |-> <<>>,
          records |-> KeptRecords(data_)]

\* the positions of data.columns that are drawn as a slice or a series:
\* every column of the transposed single row and of a time series,
\* data.columns.slice(1) of a multi-series
DrawnColumns(data_) ==
    LET dataType == DisplayDataType(data_) IN
    IF dataType = "category"
    THEN (IF IsSingleRowMultipleColumns(data_)
          THEN 1..Len(data_.columns) ELSE {})
    ELSE IF dataType = "timeseries" THEN 1..Len(data_.columns)
    ELSE 2..Len(data_.columns)

\* COLORS[index % COLORS.length] for the column at position j, where index
\* counts from the first drawn column
SeriesColor(data_, j) ==
    LET index == IF DisplayDataType(data_) \in {"category", "timeseries"}
                 THEN j - 1 ELSE j - 2
    IN  COLORS(data_)[(index % Len(COLORS(data_))) + 1]

\* chartData.length
ChartDataLength(cd) == Len(cd.entries) + Len(cd.records)

(***************************************************************************)
(* ChartDisplay rendered directly on an arbitrary dataset of at most       *)
(* MaxChartCells cells with any of the three shapes.  The first column is  *)
(* named "a" or "index".                                                   *)
(***************************************************************************)
ChartColumnPools ==
    { << <<"a">>, <<"b">>, <<"c">>, <<"d">>, <<"e">>, <<"f">> >>,
      << KeyIndex, <<"b">>, <<"c">>, <<"d">>, <<"e">>, <<"f">> >> }
ChartCellValues == {Num(0), Num(5), Str(<<"1">>), Str(<<>>), Str(<<"x">>)}

ChartRowsOver(cols) ==
    UNION {[keys -> ChartCellValues] : keys \in SUBSET Range(cols)}

InitChart ==
    /\ AppInit
    /\ data = NoData
    /\ detection = NoDetection
    /\ \E pool \in ChartColumnPools, n \in 0..MaxChartCells,
          m \in 0..MaxChartCells, shape \in Shapes :
          /\ n * m <= MaxChartCells
          /\ \E rws \in [1..m -> ChartRowsOver(SubSeq(pool, 1, n))] :
                props = [isNull |-> FALSE, name |-> <<"T">>,
                         columns |-> SubSeq(pool, 1, n), rows |-> rws,
                         colors |-> <<>>, dataType |-> shape]
    /\ chartData = NoChartData

Prepare ==
    /\ chartData = NoChartData
    /\ chartData' = prepareChartData(props)
    /\ UNCHANGED <<tableName, columns, rows, tableData, viewType,
                   selectedTheme, customColors, useCustomColors,
                   dataTypeMode, detectedDataType, alertMsg, steps, data,
                   detection, props>>

NextChart == Prepare

SpecChart == InitChart /\ [][NextChart]_vars

(***************************************************************************)
(* Properties of detectDataType (checked under SpecDetect).                *)
(***************************************************************************)
Detected == detection # NoDetection

\* a cell that is a number, or a string of decimal digits; the empty
\* string, a text and a missing cell are not
IsDecimalDigits(s) == s # <<>> /\ \A i \in 1..Len(s) : IsDigit(s[i])
ParsesAsNumber(v) ==
    \/ v.type = "number" /\ ~v.nan
    \/ v.type = "string" /\ IsDecimalDigits(v.s)

FirstColumnCells == {Get(data.rows[i], data.columns[1]) : i \in 1..Len(data.rows)}
OtherColumnCells ==
    {Get(data.rows[i], data.columns[j]) :
        i \in 1..Len(data.rows), j \in 2..Len(data.columns)}

\* C1: a dataset with exactly one row and more than one column is
\* classified category with confidence high, whatever its cells hold.
C1_SingleRowIsCategoryHigh ==
    (Detected /\ Len(data.rows) = 1 /\ Len(data.columns) > 1)
        => (detection.type = "category" /\ detection.confidence = "high")

C1_Witness ==
    /\ Detected
    /\ Len(data.rows) = 1
    /\ Len(data.columns) = 3
    /\ Get(data.rows[1], data.columns[1]) = Str(<<"x">>)
    /\ Get(data.rows[1], data.columns[2]) = Undefined
    /\ Get(data.rows[1], data.columns[3]) = Str(<<>>)
    /\ detection.type = "category"

\* C2: a dataset with more than one row and exactly two columns is
\* classified timeseries, with confidence high when every first-column
\* value is numeric and medium when some first-column value is not.
C2_TwoColumnsIsTimeSeries ==
    (Detected /\ Len(data.rows) > 1 /\ Len(data.columns) = 2)
        => /\ detection.type = "timeseries"
           /\ (\A v \in FirstColumnCells : ParsesAsNumber(v))
                => detection.confidence = "high"
           /\ (\E v \in FirstColumnCells : ~ParsesAsNumber(v))
                => detection.confidence = "medium"

\* C3: the numeric test of rules 2 and 3 accepts a cell exactly when it is
\* a number or a string that parses as a decimal number; an empty string
\* and a missing cell are not numeric.
C3_NumericTestIsDecimalParse ==
    (Detected /\ Len(data.rows) > 1 /\ Len(data.columns) >= 2)
        => /\ Len(data.columns) = 2
                => \A v \in FirstColumnCells : IsNumeric(v) <=> ParsesAsNumber(v)
           /\ Len(data.columns) >= 3
                => \A v \in OtherColumnCells : IsNumeric(v) <=> ParsesAsNumber(v)

\* C4: a dataset with more than one row and three or more columns whose
\* columns other than the first hold only numeric values is classified
\* multiseries with confidence high, whatever the first column holds.
C4_NumericMetricsIsMultiSeriesHigh ==
    (/\ Detected
     /\ Len(data.rows) > 1
     /\ Len(data.columns) >= 3
     /\ \A v \in OtherColumnCells : IsNumeric(v))
        => (detection.type = "multiseries" /\ detection.confidence = "high")

C4_Witness ==
    /\ Detected
    /\ Len(data.rows) = 2
    /\ Len(data.columns) = 3
    /\ \A v \in OtherColumnCells : ParsesAsNumber(v)
    /\ Get(data.rows[1], data.columns[1]) = Str(<<"x">>)
    /\ Get(data.rows[2], data.columns[1]) = Undefined
    /\ detection.type = "multiseries"
    /\ detection.confidence = "high"

\* C5: a dataset with more than one row and three or more columns in which
\* some value of a column other than the first is not numeric falls to the
\* default: multiseries with confidence low.
C5_NonNumericMetricIsMultiSeriesLow ==
    (/\ Detected
     /\ Len(data.rows) > 1
     /\ Len(data.columns) >= 3
     /\ \E v \in OtherColumnCells : ~ParsesAsNumber(v))
        => (detection.type = "multiseries" /\ detection.confidence = "low")

\* C6: a dataset with more than one row and exactly one column is
\* classified category with confidence low.
C6_SingleColumnIsCategoryLow ==
    (Detected /\ Len(data.rows) > 1 /\ Len(data.columns) = 1)
        => (detection.type = "category" /\ detection.confidence = "low")

C6_Witness ==
    /\ Detected
    /\ Len(data.rows) = 2
    /\ Len(data.columns) = 1
    /\ Get(data.rows[1], data.columns[1]) = Num(5)
    /\ detection.type = "category"
    /\ detection.confidence = "low"

\* C7: detectDataType answers for every dataset; with no rows, with no
\* columns, or with one row and one column the answer is multiseries with
\* confidence low, and the answer is never the request value auto.
C7_TotalWithInertFallback ==
    /\ detectDataType(data).type \in Shapes
    /\ Detected =>
        /\ detection.type \in Shapes
        /\ detection.confidence \in {"high", "medium", "low"}
        /\ (\/ Len(data.rows) = 0
            \/ Len(data.columns) = 0
            \/ (Len(data.rows) = 1 /\ Len(data.columns) = 1))
              => (detection.type = "multiseries" /\ detection.confidence = "low")

C7_Witness ==
    /\ Detected
    /\ Len(data.rows) = 0
    /\ Len(data.columns) = 2
    /\ detection.type = "multiseries"
    /\ detection.confidence = "low"

\* C8: the recommended charts of a classification depend only on its
\* shape: {pie, bar} for category, {line, area, bar} for timeseries and
\* multiseries, in every branch of detectDataType and in
\* getRecommendedCharts, whose not-recommended list is the complement.
RecommendedFor(shape) ==
    IF shape = "category" THEN {"pie", "bar"} ELSE {"line", "area", "bar"}

C8_RecommendedDependsOnShapeOnly ==
    Detected =>
        /\ Range(detection.recommendedCharts) = RecommendedFor(detection.type)
        /\ Range(getRecommendedCharts(detection.type).recommended)
                = RecommendedFor(detection.type)
        /\ Range(getRecommendedCharts(detection.type).notRecommended)
                = ChartKinds \ RecommendedFor(detection.type)

(***************************************************************************)
(* Properties of the suitability matrix and of the rendering gate          *)
(* (checked under Spec).                                                   *)
(***************************************************************************)
SuitableKinds(shape) ==
    CASE shape = "category" -> {"pie", "bar"}
      [] shape = "timeseries" -> {"bar", "line", "area"}
      [] shape = "multiseries" -> {"bar", "line", "area"}

\* C9: for every stored dataset, whatever its content, the suitability of
\* each of the four chart kinds is the one of the fixed table: category ->
\* pie and bar; timeseries and multiseries -> bar, line and area.
C9_SuitabilityMatchesTable ==
    ~tableData.isNull =>
        /\ tableData.dataType \in Shapes
        /\ \A type \in ChartKinds :
              ButtonSuitability(type).suitable
                  <=> type \in SuitableKinds(tableData.dataType)

C9_Witness ==
    /\ ~tableData.isNull
    /\ tableData.dataType = "category"
    /\ Len(tableData.columns) = 2
    /\ ~ButtonSuitability("line").suitable
    /\ ButtonSuitability("pie").suitable

\* C10: with a dataset stored and a chart kind selected, the display is a
\* text message instead of a chart exactly when the suitability matrix
\* marks the kind unsuitable for the stored shape.
C10_UnsuitableChartShowsMessage ==
    (~tableData.isNull /\ viewType # "table") =>
        /\ Display.kind \in {"message", "chart"}
        /\ Display.kind = "message"
              <=> ~getChartSuitability(viewType, tableData.dataType).suitable

C10_Witness ==
    /\ ~tableData.isNull
    /\ viewType = "pie"
    /\ tableData.dataType = "timeseries"
    /\ Display.kind = "message"

(***************************************************************************)
(* Properties of prepareChartData (checked under SpecChart).               *)
(***************************************************************************)
Prepared == chartData # NoChartData

\* the number a cell stands for: the cell when it is a number, the parsed
\* number when it is a string of decimal digits, 0 otherwise
Magnitude(v) ==
    IF v.type = "number" /\ ~v.nan THEN v
    ELSE IF v.type = "string" /\ IsDecimalDigits(v.s) THEN Num(DigitsValue(v.s))
    ELSE Num(0)

IsNumberValue(v) == v.type = "number" /\ ~v.nan

\* C11: the prepared series has as many entries as the dataset has columns
\* when the shape is category and as many as it has rows when the shape is
\* timeseries or multiseries, for every dataset and shape.
C11_SeriesLengthFollowsShape ==
    Prepared =>
        ChartDataLength(chartData) =
            IF props.dataType = "category" THEN Len(props.columns)
            ELSE Len(props.rows)

\* C12: for shape category and a single row, the series is one entry per
\* column in column order, with the column name as label, the number the
\* row's cell stands for as value (0 when missing or unparseable) and the
\* colour of the column's position.
C12_CategoryEntryPerColumn ==
    (Prepared /\ props.dataType = "category" /\ Len(props.rows) = 1) =>
        /\ Len(chartData.entries) = Len(props.columns)
        /\ \A i \in 1..Len(chartData.entries) :
              /\ chartData.entries[i].name = props.columns[i]
              /\ chartData.entries[i].value
                    = Magnitude(Get(props.rows[1], props.columns[i]))
              /\ chartData.entries[i].color
                    = COLORS(props)[((i - 1) % Len(COLORS(props))) + 1]

\* C13: for shape timeseries the series is one record per row in row order
\* and record k carries index k and the label of row k, whatever the
\* columns are named.
C13_TimeSeriesCarriesRowIndex ==
    (Prepared /\ props.dataType = "timeseries") =>
        /\ Len(chartData.records) = Len(props.rows)
        /\ \A k \in 1..Len(chartData.records) :
              /\ chartData.records[k][KeyIndex] = Num(k)
              /\ chartData.records[k][KeyIndexLabel] = Str(RowLabel(k))

\* C14: for shapes category and timeseries every value plotted as a
\* magnitude is a number: the value of every entry and the field of every
\* record under every column.
C14_MagnitudesAreNumbers ==
    (Prepared /\ props.dataType \in {"category", "timeseries"}) =>
        /\ \A i \in 1..Len(chartData.entries) :
              IsNumberValue(chartData.entries[i].value)
        /\ \A k \in 1..Len(chartData.records) :
              \A col \in Range(props.columns) :
                  IsNumberValue(chartData.records[k][col])

\* C15: for shape multiseries the field of every record under the first
\* column is the row's first-column cell as given, never coerced.
C15_MultiSeriesKeyIsRaw ==
    (Prepared /\ props.dataType = "multiseries" /\ Len(props.columns) >= 1) =>
        \A k \in 1..Len(chartData.records) :
            Get(props.rows[k], props.columns[1]).type # "undefined" =>
                chartData.records[k][props.columns[1]]
                    = Get(props.rows[k], props.columns[1])

\* what C16 expects of a cell under a column after the first
KeptOrEmpty(v) ==
    IF v.type = "number" THEN v
    ELSE IF v.type = "string" /\ Trim(v.s) # <<>>
    THEN (IF IsDecimalDigits(Trim(v.s)) THEN Num(DigitsValue(Trim(v.s))) ELSE v)
    ELSE Str(<<>>)

\* C16: for shape multiseries the field of every record under a column
\* after the first is the cell when it is a number (0 included), the parsed
\* number when it is a string that parses, the string when it does not, and
\* the empty string when the cell is absent, empty or whitespace-only.
C16_MultiSeriesFieldsCoercedOrKept ==
    (Prepared /\ props.dataType = "multiseries") =>
        \A k \in 1..Len(chartData.records) :
            \A j \in 2..Len(props.columns) :
                chartData.records[k][props.columns[j]]
                    = KeptOrEmpty(Get(props.rows[k], props.columns[j]))

(***************************************************************************)
(* Properties of generateTable (checked under Spec).                       *)
(***************************************************************************)
\* C17: whenever a dataset is stored, its stored shape is category,
\* timeseries or multiseries, never auto and never undefined.
C17_StoredShapeIsAShape ==
    ~tableData.isNull =>
        tableData.dataType \in {"category", "timeseries", "multiseries"}

C17_Witness ==
    /\ ~tableData.isNull
    /\ dataTypeMode = "auto"
    /\ tableData.dataType = "category"
    /\ alertMsg = ""
    /\ detectedDataType = "category"

\* generateTable reads the form and leaves it as it is
FormUntouched ==
    UNCHANGED <<tableName, columns, rows, selectedTheme, customColors,
                useCustomColors, dataTypeMode>>

\* the dataset a step leaves stored, as the classifier sees it
StoredDataset ==
    [name |-> tableData'.name, columns |-> tableData'.columns,
     rows |-> tableData'.rows]

\* C18: a generate that stores a dataset stores with it the shape
\* detectDataType returns for that dataset when the mode is auto, and the
\* selected shape when the mode is category, timeseries or multiseries.
C18_StoredShapeIsDetectedOrSelected ==
    [][\/ ~(FormUntouched /\ generateTableOk)
       \/ /\ ~tableData'.isNull
          /\ dataTypeMode = "auto" =>
                tableData'.dataType = detectDataType(StoredDataset).type
          /\ dataTypeMode # "auto" => tableData'.dataType = dataTypeMode]_vars

\* a stored shape that is a manual override of a different detected shape
C18_Witness ==
    /\ ~tableData.isNull
    /\ detectedDataType \in Shapes
    /\ tableData.dataType \in Shapes
    /\ tableData.dataType # detectedDataType

\* any invocation of generateTable
GenerateInvoked ==
    /\ FormUntouched
    /\ generateTableNoName \/ generateTableNoRows \/ generateTableOk

NoNonBlankColumn == \A i \in 1..Len(columns) : Trim(columns[i]) = <<>>

NoRowWithNonBlankCell ==
    \A i \in 1..Len(rows) :
        \A key \in DOMAIN rows[i] :
            rows[i][key].type = "string" /\ Trim(rows[i][key].s) = <<>>

C20_StoredDatasetIsUsable ==
    ~tableData.isNull =>
        /\ Trim(tableData.name) # <<>>
        /\ Len(tableData.columns) >= 1
        /\ \E i \in 1..Len(tableData.rows) :
              \E j \in 1..Len(tableData.columns) :
                  LET cell == Get(tableData.rows[i], tableData.columns[j])
                  IN  cell.type = "string" /\ Trim(cell.s) # <<>>

\* C21: every record of a stored dataset has only keys that are column
\* names of the stored dataset.
C21_StoredKeysAreStoredColumns ==
    ~tableData.isNull =>
        \A i \in 1..Len(tableData.rows) :
            DOMAIN tableData.rows[i] \subseteq Range(tableData.columns)

\* C22: the column names of a stored dataset are pairwise distinct.
C22_StoredColumnsAreDistinct ==
    ~tableData.isNull =>
        \A i, j \in 1..Len(tableData.columns) :
            i # j => tableData.columns[i] # tableData.columns[j]

(***************************************************************************)
(* Properties of the recommendation tables (checked under Spec, for the    *)
(* data type selected in the form).                                        *)
(***************************************************************************)
\* C23: for the explicit shape selected and each chart kind, the manual-only
\* variant gives the same suitable flag as the full variant, recommends the
\* same set of charts as the full getRecommendedCharts, and enables a chart
\* exactly when it is suitable.
C23_ManualVariantAgreesWithFull ==
    dataTypeMode \in Shapes =>
        /\ Range(getDataTypeInfo(dataTypeMode).recommendedCharts)
              = Range(getRecommendedCharts(dataTypeMode).recommended)
        /\ \A kind \in ChartKinds :
              /\ manualGetChartSuitability(kind, dataTypeMode).suitable
                    = getChartSuitability(kind, dataTypeMode).suitable
              /\ isChartEnabled(kind, dataTypeMode)
                    = manualGetChartSuitability(kind, dataTypeMode).suitable

C23_Witness ==
    /\ dataTypeMode = "timeseries"
    /\ ~tableData.isNull
    /\ tableData.dataType = "timeseries"
    /\ ~isChartEnabled("pie", dataTypeMode)

\* C26: for the data type selected, auto included, the recommended charts
\* are exactly the chart kinds marked suitable; for auto both are all four.
C26_RecommendedIsSuitable ==
    /\ Range(getRecommendedCharts(dataTypeMode).recommended)
          = {kind \in ChartKinds :
                getChartSuitability(kind, dataTypeMode).suitable}
    /\ dataTypeMode = "auto" =>
          Range(getRecommendedCharts(dataTypeMode).recommended) = ChartKinds

C26_Witness ==
    /\ dataTypeMode = "multiseries"
    /\ Range(getRecommendedCharts(dataTypeMode).notRecommended) = {"pie"}
    /\ tableData.isNull
    /\ steps > 0

(***************************************************************************)
(* Properties of the App's state (checked under Spec).                     *)
(***************************************************************************)
\* the stored dataset as the classifier sees it
CurrentDataset ==
    [name |-> tableData.name, columns |-> tableData.columns,
     rows |-> tableData.rows]

\* C24: the detected shape is null exactly when no dataset is stored and
\* otherwise is detectDataType of the stored dataset; a step that is
\* neither a successful generate nor a reset changes neither the stored
\* dataset nor the detected shape.
C24_DetectedShapeFollowsStoredDataset ==
    /\ [](/\ (detectedDataType = "null") <=> tableData.isNull
          /\ ~tableData.isNull =>
                detectedDataType = detectDataType(CurrentDataset).type)
    /\ [][\/ UNCHANGED <<tableData, detectedDataType>>
           \/ generateTableOk
           \/ resetForm]_vars

\* a stored dataset with form edits made after it was generated
C24_Witness ==
    /\ ~tableData.isNull
    /\ detectedDataType = "category"
    /\ Len(columns) > Len(tableData.columns)
    /\ tableName # tableData.name

\* detectedDataType && dataTypeMode === 'auto'
BadgeShown == detectedDataType # "null" /\ dataTypeMode = "auto"

\* C25: whenever the detected-type badge is shown, the shape it names is
\* the shape stored with the dataset.
C25_BadgeNamesStoredShape ==
    BadgeShown => (~tableData.isNull /\ detectedDataType = tableData.dataType)

\* C27: the form always holds at least one column entry and at least one
\* row entry.
C27_FormKeepsOneColumnAndOneRow ==
    Len(columns) >= 1 /\ Len(rows) >= 1

\* one column and one row left, where neither remove button is offered
C27_Witness ==
    /\ Len(columns) = 1
    /\ Len(rows) = 1
    /\ columns[1] = <<"b">>
    /\ <<"b">> \in DOMAIN rows[1]
    /\ steps >= 5

\* updateColumn called on position index with any value
ColumnRenamed(index) ==
    \E value \in ColumnNameInputs : updateColumn(index, value)

\* no two column entries carry the same non-blank name
NamesDistinct(cols) ==
    \A i, j \in 1..Len(cols) :
        (i # j /\ cols[i] # <<>>) => cols[i] # cols[j]

\* C28: a rename of the column at one position keeps every row's value of
\* that column under the column's new name, whatever the old and the new
\* name are (the empty name included), and leaves the values under the
\* other columns as they were; column names are distinct before and after.
C28_RenameKeepsData ==
    [][\A index \in 1..MaxCols :
          (/\ ColumnRenamed(index)
           /\ NamesDistinct(columns)
           /\ NamesDistinct(columns')) =>
              \A i \in 1..Len(rows) :
                  /\ Get(rows'[i], columns'[index])
                        = Get(rows[i], columns[index])
                  /\ \A j \in 1..Len(columns) :
                        (j # index /\ columns[j] # <<>>) =>
                            Get(rows'[i], columns'[j])
                                = Get(rows[i], columns[j])]_vars

\* C29: resetForm, from whatever state, leaves the application as it was
\* constructed: empty table name, one blank column, one empty row, no
\* stored dataset, no detected shape, mode auto, view table, theme Default,
\* no custom colours and custom colours off.
C29_ResetRestoresInitialState ==
    [][\/ ~resetForm
       \/ /\ tableName' = <<>>
          /\ columns' = << <<>> >>
          /\ rows' = << [k \in {} |-> Undefined] >>
          /\ tableData'.isNull
          /\ detectedDataType' = "null"
          /\ dataTypeMode' = "auto"
          /\ viewType' = "table"
          /\ selectedTheme' = "Default"
          /\ DOMAIN customColors' = {}
          /\ ~useCustomColors'
          /\ AppInit']_vars

\* a state in which a reset has every field to restore
C29_Witness ==
    /\ ~tableData.isNull
    /\ tableName # <<>>
    /\ columns # << <<>> >>
    /\ rows # <<EmptyObject>>
    /\ detectedDataType # "null"
    /\ dataTypeMode # "auto"
    /\ viewType # "table"
    /\ selectedTheme # "Default"
    /\ useCustomColors

\* the colours C30 allows for the stored column col at stored position j:
\* the colour picked for it, or else the theme colour at its position in
\* the stored dataset or at a position it has in the form
ColorsFor(col, j) ==
    LET themeColors == ThemeColors(selectedTheme)
        At(pos) == themeColors[((pos - 1) % Len(themeColors)) + 1]
    IN  IF col \in DOMAIN customColors /\ customColors[col] # ""
        THEN {customColors[col]}
        ELSE {At(j)} \cup {At(pos) : pos \in {q \in 1..Len(columns) : columns[q] = col}}

\* C30: a dataset generated while custom colours are on draws every column
\* in the colour picked for that column, or the theme colour at the
\* column's position when none was picked, whatever its shape.
C30_SeriesUsePickedColours ==
    [][(generateTableOk /\ useCustomColors) =>
          \A j \in DrawnColumns(tableData') :
              SeriesColor(tableData', j)
                  \in ColorsFor(tableData'.columns[j], j)]_vars

=============================================================================
